---- MODULE Spec2Model ----
(***************************************************************************)
(* Model of the package manager in src/main.go: the repository index       *)
(* (available_packages), the installed set (installed_packages), the       *)
(* transaction ledger (transactions) and the Install / Remove / Upgrade /  *)
(* Rollback / UpdateRepositories commands that read and write them.        *)
(*                                                                         *)
(* Strings that the code compares, searches or (un)marshals are sequences  *)
(* of one-character strings, so that the LIKE containment test, the JSON   *)
(* encoding and the bytewise version ordering are computed, not assumed.   *)
(***************************************************************************)
EXTENDS Naturals, Integers, Sequences, FiniteSets, TLC

\* ------------------------------------------------------------------------
\* Bounds
\* ------------------------------------------------------------------------

\* longest package list one repository fetch delivers
MaxFetch == 2

\* most records the ledger holds
MaxTx == 2

\* deepest nesting of resolve calls that is followed
MaxDepth == 5

\* ------------------------------------------------------------------------
\* Strings
\* ------------------------------------------------------------------------

NameA == <<"a">>
NameAB == <<"a", "b">>
NameC == <<"c">>

Names == {NameA, NameAB, NameC}

Ver1 == <<"1">>
Ver2 == <<"2">>
Ver9 == <<"9">>
Ver10 == <<"1", "0">>

\* byte value of the characters that occur in version strings
Ord(ch) ==
  CASE ch = "0" -> 48
    [] ch = "1" -> 49
    [] ch = "2" -> 50
    [] ch = "9" -> 57
    [] OTHER -> 90

\* s < t in the bytewise order Go and SQLite use for strings
RECURSIVE StrLess(_, _)
StrLess(s, t) ==
  IF t = <<>> THEN FALSE
  ELSE IF s = <<>> THEN TRUE
  ELSE IF Ord(Head(s)) < Ord(Head(t)) THEN TRUE
  ELSE IF Ord(Head(s)) > Ord(Head(t)) THEN FALSE
  ELSE StrLess(Tail(s), Tail(t))

StrGeq(s, t) == ~StrLess(s, t)

\* SQL: hay LIKE '%' || needle || '%'
Like(hay, needle) ==
  \E i \in 1..(Len(hay) + 1) :
    /\ i + Len(needle) - 1 <= Len(hay)
    /\ SubSeq(hay, i, i + Len(needle) - 1) = needle

RECURSIVE MarshalItems(_)
MarshalItems(list) ==
  IF list = <<>> THEN <<>>
  ELSE <<"\"">> \o Head(list) \o <<"\"">>
       \o (IF Len(list) > 1 THEN <<",">> ELSE <<>>)
       \o MarshalItems(Tail(list))

\* json.Marshal of a []string
Marshal(list) == <<"[">> \o MarshalItems(list) \o <<"]">>

RECURSIVE ParseStrings(_, _, _)
ParseStrings(s, inStr, cur) ==
  IF s = <<>> THEN <<>>
  ELSE IF Head(s) = "\"" THEN
         IF inStr THEN <<cur>> \o ParseStrings(Tail(s), FALSE, <<>>)
         ELSE ParseStrings(Tail(s), TRUE, <<>>)
  ELSE IF inStr THEN ParseStrings(Tail(s), TRUE, Append(cur, Head(s)))
  ELSE ParseStrings(Tail(s), FALSE, <<>>)

\* json.Unmarshal into a []string, guarded by `if json != ""`
Unmarshal(s) == IF s = <<>> THEN <<>> ELSE ParseStrings(s, FALSE, <<>>)

Range(seq) == {seq[i] : i \in 1..Len(seq)}

\* all orderings of a finite set, as sequences without repetition
Perms(S) ==
  {p \in [1..Cardinality(S) -> S] : \A i, j \in 1..Cardinality(S) : p[i] = p[j] => i = j}

\* ------------------------------------------------------------------------
\* Package lists a repository may serve
\* ------------------------------------------------------------------------

Pkg(n, v, deps, confs) ==
  [name |-> n, version |-> v, dependencies |-> deps, conflicts |-> confs]

Catalogue ==
  { Pkg(NameA, Ver1, <<NameAB, NameC>>, <<>>),
    Pkg(NameA, Ver2, <<NameAB>>, <<NameC>>),
    Pkg(NameAB, Ver1, <<>>, <<>>),
    Pkg(NameC, Ver10, <<>>, <<>>),
    Pkg(NameC, Ver9, <<NameC, NameAB>>, <<NameAB, NameA>>) }

FetchLists == {F \in SUBSET Catalogue : Cardinality(F) <= MaxFetch}

\* the one repository of the default configuration
RepoMain == "main"

\* ------------------------------------------------------------------------
\* State
\* ------------------------------------------------------------------------

VARIABLES
  available,     \* rows of available_packages
  installed,     \* rows of installed_packages
  transactions,  \* rows of transactions, in id order
  pc,            \* position of the running command
  call,          \* frame of the running Install / Remove
  rb,            \* frame of the running Rollback
  ev,            \* what the last step did
  rs,            \* frame of a running ResolveDependencies / CheckConflicts
  hist           \* history of the command sequence, when it is recorded

vars == <<available, installed, transactions, pc, call, rb, ev, rs, hist>>

NoCall == [op |-> "none"]
NoRb == [active |-> FALSE]
NoRs == [mode |-> "none"]
Ev(kind, op, name, result) == [kind |-> kind, op |-> op, name |-> name, result |-> result]

\* no Install to look back at
NoUndo == [txID |-> 0, installed0 |-> {}]
\* the history is not recorded
NoHist == [on |-> FALSE, allOk |-> FALSE, undo |-> NoUndo]
\* nothing has run yet
EmptyHist == [on |-> TRUE, allOk |-> TRUE, undo |-> NoUndo]

\* the history after a step, read from what the step did. allOk: every call
\* so far, the calls Rollback makes included, returned nil. undo: the id and
\* the installed rows at the start of the Install that main ran last and that
\* returned nil, kept while nothing else runs but the Rollback of that id.
HistNext ==
  IF ~hist.on THEN hist
  ELSE [on |-> TRUE,
        allOk |-> hist.allOk /\ (ev'.kind = "return" => ev'.result \in {"ok", "latest"}),
        undo |->
          IF pc = "install_ret" /\ ~rb.active
          THEN (IF call.success
                THEN [txID |-> call.txID, installed0 |-> call.installed0]
                ELSE NoUndo)
          ELSE IF pc = "idle"
          THEN (IF ev'.op = "rollback" /\ ev'.kind = "begin" /\ rb'.txID = hist.undo.txID
                THEN hist.undo ELSE NoUndo)
          ELSE IF ev'.op = "rollback" /\ ev'.kind = "return"
          THEN NoUndo
          ELSE hist.undo]

InstalledNames == {r.name : r \in installed}
IsInstalled(rows, n) == \E r \in rows : r.name = n

\* rows of the index for a name that carry its highest version string
LatestRows(rows, n) ==
  {r \in rows : r.name = n /\ \A q \in rows : q.name = n => StrGeq(r.version, q.version)}

\* SELECT ... FROM available_packages WHERE name = ? ORDER BY version DESC LIMIT 1
\* (with the one repository of the default configuration a name has at most
\* one row per version, so the highest version names one row)
HasLatest(rows, n) == LatestRows(rows, n) # {}
Latest(rows, n) == CHOOSE r \in LatestRows(rows, n) : TRUE

Init ==
  /\ available = {}
  /\ installed = {}
  /\ transactions = <<>>
  /\ pc = "idle"
  /\ call = NoCall
  /\ rb = NoRb
  /\ ev = Ev("init", "none", <<>>, "none")
  /\ rs = NoRs
  /\ hist = NoHist

\* ------------------------------------------------------------------------
\* UpdateRepositories
\* ------------------------------------------------------------------------

IndexRow(repo, p) ==
  [name |-> p.name, version |-> p.version, repository |-> repo,
   dependencies |-> Marshal(p.dependencies), conflicts |-> Marshal(p.conflicts)]

SameKey(r, q) ==
  r.name = q.name /\ r.version = q.version /\ r.repository = q.repository

\* variant: the sync replaces the repository's rows by the fetched list
Upsert_Purge(rows, repo, fetched) ==
  {r \in rows : r.repository # repo} \cup {IndexRow(repo, p) : p \in fetched}

\* INSERT OR REPLACE INTO available_packages, once per fetched package
Upsert(rows, repo, fetched) ==
  LET new == {IndexRow(repo, p) : p \in fetched}
  IN {r \in rows : ~\E q \in new : SameKey(r, q)} \cup new

\* variant: the sync also moves the installed row of a fetched name to the
\* fetched version
UpdateRepositories_Refresh ==
  /\ pc = "idle"
  /\ \E fetched \in FetchLists :
       /\ available' = Upsert(available, RepoMain, fetched)
       /\ installed' =
            {IF \E p \in fetched : p.name = r.name
             THEN [r EXCEPT !.version = (CHOOSE p \in fetched : p.name = r.name).version]
             ELSE r : r \in installed}
  /\ ev' = Ev("return", "update", <<>>, "ok")
  /\ pc' = "done"
  /\ UNCHANGED <<transactions, call, rb, rs>>
  /\ hist' = HistNext

UpdateRepositories ==
  /\ pc = "idle"
  /\ \E fetched \in FetchLists :
       available' = Upsert(available, RepoMain, fetched)
  /\ ev' = Ev("return", "update", <<>>, "ok")
  /\ pc' = "done"
  /\ UNCHANGED <<installed, transactions, call, rb, rs>>
  /\ hist' = HistNext

\* ------------------------------------------------------------------------
\* ResolveDependencies
\* ------------------------------------------------------------------------

\* the call resolve(pkgName) of the outer function, as a frame that has one
\* name left to resolve
ResolveStart(root) ==
  [resolved |-> {}, stack |-> << [deps |-> <<root>>, i |-> 1] >>,
   failed |-> FALSE, missing |-> <<>>, queried |-> {},
   visits |-> [n \in Names |-> 0]]

\* variant: the visited map is never consulted
AlreadyResolved_Never(s, n) == FALSE

\* if resolved[name] { return nil }
AlreadyResolved(s, n) == n \in s.resolved

\* variant: installed names are resolved like any other
InstalledShortCircuit_Never(inst, n) == FALSE

\* SELECT COUNT(*) FROM installed_packages WHERE name = ?; installed > 0
InstalledShortCircuit(inst, n) == IsInstalled(inst, n)

\* the frame that iterates the dependencies of n; resolved[name] = true has
\* been set before it is pushed
DescendInto(s, idx, n, below) ==
  [s EXCEPT !.resolved = @ \cup {n},
            !.queried = @ \cup {n},
            !.visits[n] = @ + 1,
            !.stack = Append(below, [deps |-> Unmarshal(Latest(idx, n).dependencies), i |-> 1])]

\* one step of the closure resolve: return from a finished frame, or call
\* resolve on the next dependency of the innermost frame
ResolveStep(s, idx, inst) ==
  LET d == Len(s.stack)
      top == s.stack[d]
  IN IF top.i > Len(top.deps) THEN [s EXCEPT !.stack = SubSeq(s.stack, 1, d - 1)]
     ELSE LET n == top.deps[top.i]
              below == [s.stack EXCEPT ![d].i = @ + 1]
          IN IF AlreadyResolved(s, n) THEN [s EXCEPT !.stack = below]
             ELSE IF InstalledShortCircuit(inst, n)
               THEN [s EXCEPT !.resolved = @ \cup {n}, !.visits[n] = @ + 1, !.stack = below]
             ELSE IF ~HasLatest(idx, n)
               THEN [s EXCEPT !.failed = TRUE, !.missing = n, !.visits[n] = @ + 1,
                              !.queried = @ \cup {n}, !.stack = <<>>]
             ELSE DescendInto(s, idx, n, below)

RECURSIVE ResolveRun(_, _, _)
ResolveRun(s, idx, inst) ==
  IF s.stack = <<>> THEN s ELSE ResolveRun(ResolveStep(s, idx, inst), idx, inst)

\* the lists `for name := range resolved` can build: map iteration order is
\* not specified
ResultLists(s) == Perms(s.resolved)

\* ------------------------------------------------------------------------
\* CheckConflicts
\* ------------------------------------------------------------------------

\* first loop: conflicts[pkg] = append(conflicts[pkg], conflict), candidates
\* without an index row are skipped
RECURSIVE BuildConflicts(_, _, _)
BuildConflicts(packages, idx, m) ==
  IF packages = <<>> THEN m
  ELSE LET pkg == Head(packages)
       IN IF ~HasLatest(idx, pkg) THEN BuildConflicts(Tail(packages), idx, m)
          ELSE BuildConflicts(Tail(packages), idx,
                 [m EXCEPT ![pkg] = @ \o Unmarshal(Latest(idx, pkg).conflicts)])

ConflictMap(packages, idx) == BuildConflicts(packages, idx, [n \in Names |-> <<>>])

\* variant: installed packages are not looked at
ViolationKind_ListOnly(conflict, packages, inst) ==
  IF conflict \in Range(packages) THEN "list" ELSE "none"

\* the inner checks for one declared conflict name
ViolationKind(conflict, packages, inst) ==
  IF conflict \in Range(packages) THEN "list"
  ELSE IF IsInstalled(inst, conflict) THEN "installed"
  ELSE "none"

\* the error the loop over one key's conflict list returns, if it returns
RECURSIVE FirstViolation(_, _, _, _)
FirstViolation(pkg, list, packages, inst) ==
  IF list = <<>> THEN [err |-> FALSE]
  ELSE IF ViolationKind(Head(list), packages, inst) # "none"
    THEN [err |-> TRUE, pkg |-> pkg, conflict |-> Head(list),
          kind |-> ViolationKind(Head(list), packages, inst)]
  ELSE FirstViolation(pkg, Tail(list), packages, inst)

\* keys of the conflicts map; `for pkg, conflictList := range conflicts`
\* visits them in an unspecified order
ConflictKeys(packages, idx) == {n \in Names : ConflictMap(packages, idx)[n] # <<>>}

\* every result CheckConflicts can return
CheckConflicts(packages, idx, inst) ==
  LET m == ConflictMap(packages, idx)
      errs == {FirstViolation(k, m[k], packages, inst) : k \in ConflictKeys(packages, idx)}
              \ {[err |-> FALSE]}
  IN IF errs = {} THEN {[err |-> FALSE]} ELSE errs

\* ------------------------------------------------------------------------
\* Transaction log
\* ------------------------------------------------------------------------

\* id INTEGER PRIMARY KEY AUTOINCREMENT
NextId(txs) == IF txs = <<>> THEN 1 ELSE txs[Len(txs)].id + 1

\* variant: the record is inserted as already successful
BeginRecord_Done(id, type, packages) ==
  [id |-> id, type |-> type, packages |-> Marshal(packages), success |-> TRUE]

\* INSERT INTO transactions (type, packages, success) VALUES (?, ?, 0)
BeginRecord(id, type, packages) ==
  [id |-> id, type |-> type, packages |-> Marshal(packages), success |-> FALSE]

beginTransaction(txs, type, packages) ==
  Append(txs, BeginRecord(NextId(txs), type, packages))

\* variant: the record of a failed transaction is dropped
endTransaction_Prune(txs, txID, success) ==
  IF success
  THEN [k \in 1..Len(txs) |-> IF txs[k].id = txID THEN [txs[k] EXCEPT !.success = TRUE]
                              ELSE txs[k]]
  ELSE SelectSeq(txs, LAMBDA t : t.id # txID)

\* UPDATE transactions SET success = ? WHERE id = ?
endTransaction(txs, txID, success) ==
  [k \in 1..Len(txs) |-> IF txs[k].id = txID THEN [txs[k] EXCEPT !.success = success]
                         ELSE txs[k]]

HasTx(txs, id) == \E k \in 1..Len(txs) : txs[k].id = id
TxById(txs, id) == txs[CHOOSE k \in 1..Len(txs) : txs[k].id = id]

\* where a finished Install / Remove continues: in the Rollback that called
\* it, or in main, which reports the error and exits
BackPc(r) == IF r.active THEN "rollback_loop" ELSE "done"

\* variant: the refused attempt is written to the ledger
Abort_Logged(op, name, r, result) ==
  /\ ev' = Ev("return", op, name, result)
  /\ pc' = BackPc(r)
  /\ transactions' = Append(transactions,
                            [id |-> NextId(transactions), type |-> op,
                             packages |-> Marshal(<<name>>), success |-> FALSE])
  /\ UNCHANGED <<installed, call>>

\* `return err` of Install or Remove ahead of beginTransaction
Abort(op, name, r, result) ==
  /\ ev' = Ev("return", op, name, result)
  /\ pc' = BackPc(r)
  /\ UNCHANGED <<installed, transactions, call>>

\* ------------------------------------------------------------------------
\* Install
\* ------------------------------------------------------------------------

InstallFrame(name, packages, txID) ==
  [op |-> "install", name |-> name, packages |-> packages, i |-> 1,
   txID |-> txID, success |-> TRUE, applied |-> <<>>, failedAt |-> 0,
   ends |-> <<>>,
   installed0 |-> installed, transactions0 |-> transactions]

\* Install up to and including beginTransaction; r is the Rollback frame the
\* call runs under
InstallEntry(name, r) ==
  LET s == ResolveRun(ResolveStart(name), available, installed)
  IN IF s.failed
     THEN Abort("install", name, r, "notfound")
     ELSE \E packages \in ResultLists(s) :
          \E c \in CheckConflicts(packages, available, installed) :
            IF c.err
            THEN Abort("install", name, r, "conflict")
            ELSE /\ Len(transactions) < MaxTx
                 /\ transactions' = beginTransaction(transactions, "install", packages)
                 /\ call' = InstallFrame(name, packages, NextId(transactions))
                 /\ ev' = Ev("begin", "install", name, "pending")
                 /\ pc' = "install_loop"
                 /\ UNCHANGED installed

InstallCmd ==
  /\ pc = "idle"
  /\ \E name \in Names : InstallEntry(name, rb)
  /\ UNCHANGED <<available, rb, rs>>
  /\ hist' = HistNext

\* variant: the conflict list is not copied into the row
InstalledRow_NoConflicts(idx, n) ==
  LET r == Latest(idx, n)
  IN [name |-> r.name, version |-> r.version,
      dependencies |-> r.dependencies, conflicts |-> <<>>]

\* the row installPackage writes from the latest index row of the name
InstalledRow(idx, n) ==
  LET r == Latest(idx, n)
  IN [name |-> r.name, version |-> r.version,
      dependencies |-> r.dependencies, conflicts |-> r.conflicts]

\* INSERT OR REPLACE INTO installed_packages
installPackage(rows, idx, n) ==
  {r \in rows : r.name # n} \cup {InstalledRow(idx, n)}

\* installPackage fails when the index has no row of the name or when the
\* write fails
ApplyFails(idx, n, fault) == ~HasLatest(idx, n) \/ fault

\* variant: a failed application returns at once, without endTransaction
AfterApply_SkipEnd(ok, i, n) ==
  IF ~ok THEN "install_ret"
  ELSE IF i + 1 > n THEN "install_end" ELSE "install_loop"

\* variant: the loop has no break
AfterApply_NoBreak(ok, i, n) ==
  IF i + 1 > n THEN "install_end" ELSE "install_loop"

\* position after one iteration of the loop over packages
AfterApply(ok, i, n) ==
  IF ~ok THEN "install_end"
  ELSE IF i + 1 > n THEN "install_end" ELSE "install_loop"

InstallApply ==
  /\ pc = "install_loop"
  /\ \E fault \in BOOLEAN :
       LET pkg == call.packages[call.i]
           ok == ~ApplyFails(available, pkg, fault)
       IN /\ installed' = IF ok THEN installPackage(installed, available, pkg) ELSE installed
          /\ call' = [call EXCEPT !.i = @ + 1,
                                  !.success = @ /\ ok,
                                  !.failedAt = IF ok \/ @ # 0 THEN @ ELSE call.i,
                                  !.applied = IF ok THEN Append(@, pkg) ELSE @]
          /\ ev' = Ev("apply", "install", pkg, IF ok THEN "ok" ELSE "failed")
          /\ pc' = AfterApply(ok, call.i, Len(call.packages))
  /\ UNCHANGED <<available, transactions, rb, rs>>
  /\ hist' = HistNext

InstallEnd ==
  /\ pc = "install_end"
  /\ transactions' = endTransaction(transactions, call.txID, call.success)
  /\ call' = [call EXCEPT !.ends = Append(@, call.txID)]
  /\ ev' = Ev("end", "install", call.name, IF call.success THEN "ok" ELSE "failed")
  /\ pc' = "install_ret"
  /\ UNCHANGED <<available, installed, rb, rs>>
  /\ hist' = HistNext

InstallReturn ==
  /\ pc = "install_ret"
  /\ ev' = Ev("return", "install", call.name, IF call.success THEN "ok" ELSE "failed")
  /\ call' = NoCall
  /\ pc' = BackPc(rb)
  /\ UNCHANGED <<available, installed, transactions, rb, rs>>
  /\ hist' = HistNext

\* ------------------------------------------------------------------------
\* Remove
\* ------------------------------------------------------------------------

\* SELECT name FROM installed_packages WHERE dependencies LIKE '%name%'
Dependents(rows, name) == {r.name : r \in {q \in rows : Like(q.dependencies, name)}}

RemoveFrame(name, txID) ==
  [op |-> "remove", name |-> name, packages |-> <<name>>, i |-> 1,
   txID |-> txID, success |-> TRUE, applied |-> <<>>, failedAt |-> 0,
   ends |-> <<>>,
   installed0 |-> installed, transactions0 |-> transactions]

\* Remove up to and including beginTransaction
RemoveEntry(name, r) ==
  IF ~IsInstalled(installed, name)
  THEN Abort("remove", name, r, "notinstalled")
  ELSE IF Dependents(installed, name) # {}
  THEN Abort("remove", name, r, "dependent")
  ELSE /\ Len(transactions) < MaxTx
       /\ transactions' = beginTransaction(transactions, "remove", <<name>>)
       /\ call' = RemoveFrame(name, NextId(transactions))
       /\ ev' = Ev("begin", "remove", name, "pending")
       /\ pc' = "remove_delete"
       /\ UNCHANGED installed

RemoveCmd ==
  /\ pc = "idle"
  /\ \E name \in Names : RemoveEntry(name, rb)
  /\ UNCHANGED <<available, rb, rs>>
  /\ hist' = HistNext

\* DELETE FROM installed_packages WHERE name = ?
deletePackage(rows, n) == {r \in rows : r.name # n}

RemoveDelete ==
  /\ pc = "remove_delete"
  /\ \E fault \in BOOLEAN :
       /\ installed' = IF fault THEN installed ELSE deletePackage(installed, call.name)
       /\ call' = [call EXCEPT !.i = @ + 1,
                               !.success = ~fault,
                               !.failedAt = IF fault THEN 1 ELSE 0,
                               !.applied = IF fault THEN @ ELSE Append(@, call.name)]
       /\ ev' = Ev("apply", "remove", call.name, IF fault THEN "failed" ELSE "ok")
  /\ pc' = "remove_end"
  /\ UNCHANGED <<available, transactions, rb, rs>>
  /\ hist' = HistNext

RemoveEnd ==
  /\ pc = "remove_end"
  /\ transactions' = endTransaction(transactions, call.txID, call.success)
  /\ call' = [call EXCEPT !.ends = Append(@, call.txID)]
  /\ ev' = Ev("end", "remove", call.name, IF call.success THEN "ok" ELSE "failed")
  /\ pc' = "remove_ret"
  /\ UNCHANGED <<available, installed, rb, rs>>
  /\ hist' = HistNext

RemoveReturn ==
  /\ pc = "remove_ret"
  /\ ev' = Ev("return", "remove", call.name, IF call.success THEN "ok" ELSE "failed")
  /\ call' = NoCall
  /\ pc' = BackPc(rb)
  /\ UNCHANGED <<available, installed, transactions, rb, rs>>
  /\ hist' = HistNext

\* ------------------------------------------------------------------------
\* Upgrade
\* ------------------------------------------------------------------------

InstalledVersion(rows, n) == (CHOOSE r \in rows : r.name = n).version

AlreadyLatest_Strict(current, avail) == StrLess(avail, current)

\* if currentVersion >= availableVersion
AlreadyLatest(current, avail) == StrGeq(current, avail)

Upgrade ==
  /\ pc = "idle"
  /\ \E name \in Names :
       IF ~IsInstalled(installed, name)
       THEN /\ ev' = Ev("return", "upgrade", name, "notinstalled")
            /\ UNCHANGED installed
       ELSE IF ~HasLatest(available, name)
       THEN /\ ev' = Ev("return", "upgrade", name, "noupdates")
            /\ UNCHANGED installed
       ELSE IF AlreadyLatest(InstalledVersion(installed, name), Latest(available, name).version)
       THEN /\ ev' = Ev("return", "upgrade", name, "latest")
            /\ UNCHANGED installed
       ELSE \E fault \in BOOLEAN :
              IF ApplyFails(available, name, fault)
              THEN /\ ev' = Ev("return", "upgrade", name, "failed")
                   /\ UNCHANGED installed
              ELSE /\ ev' = Ev("return", "upgrade", name, "ok")
                   /\ installed' = installPackage(installed, available, name)
  /\ pc' = "done"
  /\ UNCHANGED <<available, transactions, call, rb, rs>>
  /\ hist' = HistNext

\* ------------------------------------------------------------------------
\* Rollback
\* ------------------------------------------------------------------------

TxIds == 1..(MaxTx + 1)

RollbackCmd ==
  /\ pc = "idle"
  /\ \E txID \in TxIds :
       IF ~HasTx(transactions, txID)
       THEN /\ ev' = Ev("return", "rollback", <<>>, "notfound")
            /\ pc' = "done"
            /\ UNCHANGED rb
       ELSE /\ rb' = [active |-> TRUE, txID |-> txID,
                      type |-> TxById(transactions, txID).type,
                      packages |-> Unmarshal(TxById(transactions, txID).packages),
                      i |-> 1, attempted |-> <<>>]
            /\ ev' = Ev("begin", "rollback", <<>>, "pending")
            /\ pc' = "rollback_loop"
  /\ UNCHANGED <<available, installed, transactions, call, rs>>
  /\ hist' = HistNext

\* variant: the loop is left at the first call that returns an error
RollbackDone_StopOnError(r) ==
  \/ r.i > Len(r.packages)
  \/ r.i > 1 /\ ev.kind = "return" /\ ev.result # "ok"

\* the range loop over the listed names has no name left; the value a call
\* returns is dropped
RollbackDone(r) == r.i > Len(r.packages)

\* one iteration of `for _, pkg := range packages`: the call of Remove or
\* Install, up to its return or its beginTransaction
RollbackCall ==
  /\ pc = "rollback_loop"
  /\ ~RollbackDone(rb)
  /\ IF rb.type = "install" THEN RemoveEntry(rb.packages[rb.i], rb)
     ELSE InstallEntry(rb.packages[rb.i], rb)
  /\ rb' = [rb EXCEPT !.i = @ + 1, !.attempted = Append(@, <<ev'.op, ev'.name>>)]
  /\ UNCHANGED <<available, rs>>
  /\ hist' = HistNext

RollbackReturn ==
  /\ pc = "rollback_loop"
  /\ RollbackDone(rb)
  /\ ev' = Ev("return", "rollback", <<>>, "ok")
  /\ rb' = NoRb
  /\ pc' = "done"
  /\ UNCHANGED <<available, installed, transactions, call, rs>>
  /\ hist' = HistNext

\* ------------------------------------------------------------------------
\* main: one command per process
\* ------------------------------------------------------------------------

\* the command has returned; main prints its error, if any, and the process
\* ends; the next command runs in a new process on the same database
Exit ==
  /\ pc = "done"
  /\ pc' = "idle"
  /\ ev' = Ev("exit", "none", <<>>, "none")
  /\ UNCHANGED <<available, installed, transactions, call, rb, rs>>
  /\ hist' = HistNext

Next ==
  \/ Exit
  \/ UpdateRepositories
  \/ InstallCmd
  \/ InstallApply
  \/ InstallEnd
  \/ InstallReturn
  \/ RemoveCmd
  \/ RemoveDelete
  \/ RemoveEnd
  \/ RemoveReturn
  \/ Upgrade
  \/ RollbackCmd
  \/ RollbackCall
  \/ RollbackReturn

Spec == Init /\ [][Next]_vars

\* the same commands on the same empty database, with the history of the
\* command sequence recorded
HistInit ==
  /\ available = {}
  /\ installed = {}
  /\ transactions = <<>>
  /\ pc = "idle"
  /\ call = NoCall
  /\ rb = NoRb
  /\ ev = Ev("init", "none", <<>>, "none")
  /\ rs = NoRs
  /\ hist = EmptyHist

HistSpec == HistInit /\ [][Next]_vars

\* ------------------------------------------------------------------------
\* ResolveDependencies and CheckConflicts on their own, over arbitrary
\* contents of the two tables they read
\* ------------------------------------------------------------------------

\* (dependencies, conflicts) an index row may declare
PureShapes ==
  { <<<<>>, <<>>>>,
    <<<<NameAB>>, <<NameC>>>>,
    <<<<NameA>>, <<NameC, NameA>>>>,
    <<<<NameC, NameAB>>, <<>>>>,
    <<<<NameA>>, <<>>>> }

PureRows(n) == {IndexRow(RepoMain, Pkg(n, Ver1, sh[1], sh[2])) : sh \in PureShapes}

\* at most one row per name, any shape
PureIndexes ==
  {ra \cup rb2 \cup rc :
     ra \in {{}} \cup {{r} : r \in PureRows(NameA)},
     rb2 \in {{}} \cup {{r} : r \in PureRows(NameAB)},
     rc \in {{}} \cup {{r} : r \in PureRows(NameC)}}

PureInstalledRow(n) ==
  [name |-> n, version |-> Ver1, dependencies |-> Marshal(<<>>), conflicts |-> Marshal(<<>>)]

PureInstalled == {{PureInstalledRow(n) : n \in S} : S \in SUBSET Names}

\* candidate lists handed to CheckConflicts
CandidateLists == UNION {Perms(S) : S \in (SUBSET Names) \ {{}}}

\* the two tables are whatever the database file at dbPath holds
PureInit ==
  /\ available \in PureIndexes
  /\ installed \in PureInstalled
  /\ transactions = <<>>
  /\ pc = "pure"
  /\ call = NoCall
  /\ rb = NoRb
  /\ ev = Ev("init", "none", <<>>, "none")
  /\ rs = NoRs
  /\ hist = NoHist

ResolveCall ==
  /\ rs.mode = "none"
  /\ \E root \in Names :
       rs' = [mode |-> "resolving", root |-> root, st |-> ResolveStart(root)]
  /\ UNCHANGED <<available, installed, transactions, pc, call, rb, ev, hist>>

ResolveAdvance ==
  /\ rs.mode = "resolving"
  /\ rs.st.stack # <<>>
  /\ Len(rs.st.stack) <= MaxDepth
  /\ rs' = [rs EXCEPT !.st = ResolveStep(rs.st, available, installed)]
  /\ UNCHANGED <<available, installed, transactions, pc, call, rb, ev, hist>>

\* variant: the resolver records the names it resolved as installed
ResolveReturn_Marking ==
  /\ rs.mode = "resolving"
  /\ rs.st.stack = <<>>
  /\ \E result \in ResultLists(rs.st) :
       rs' = [mode |-> "resolved", root |-> rs.root, st |-> rs.st,
              result |-> IF rs.st.failed THEN <<>> ELSE result]
  /\ installed' = installed \cup
        {r \in available : r.name \in rs.st.resolved /\ ~IsInstalled(installed, r.name)}
  /\ UNCHANGED <<available, transactions, pc, call, rb, ev, hist>>

ResolveReturn ==
  /\ rs.mode = "resolving"
  /\ rs.st.stack = <<>>
  /\ \E result \in ResultLists(rs.st) :
       rs' = [mode |-> "resolved", root |-> rs.root, st |-> rs.st,
              result |-> IF rs.st.failed THEN <<>> ELSE result]
  /\ UNCHANGED <<available, installed, transactions, pc, call, rb, ev, hist>>

CheckCall ==
  /\ rs.mode = "none"
  /\ \E packages \in CandidateLists :
     \E c \in CheckConflicts(packages, available, installed) :
       rs' = [mode |-> "checked", packages |-> packages, outcome |-> c]
  /\ UNCHANGED <<available, installed, transactions, pc, call, rb, ev, hist>>

PureNext ==
  \/ ResolveCall
  \/ ResolveAdvance
  \/ ResolveReturn
  \/ CheckCall

PureSpec == PureInit /\ [][PureNext]_vars

\* a started resolve keeps running until it returns
PureFairSpec == PureSpec /\ WF_vars(ResolveAdvance) /\ WF_vars(ResolveReturn)

\* ------------------------------------------------------------------------
\* Properties
\* ------------------------------------------------------------------------

RowsOf(rows, n) == {r \in rows : r.name = n}

\* the running call has a record of its own in the ledger, still pending
PendingRecordOfCall ==
  /\ call.op # "none"
  /\ HasTx(transactions, call.txID)
  /\ ~HasTx(call.transactions0, call.txID)
  /\ TxById(transactions, call.txID).type = call.op
  /\ TxById(transactions, call.txID).packages = Marshal(call.packages)
  /\ TxById(transactions, call.txID).success = FALSE

\* C1: whenever a step of Install or Remove changes the installed set, the
\* ledger already holds the record of that very call, with success = false.
C1_PendingBeforeMutation ==
  [][(installed' # installed /\ ev'.op \in {"install", "remove"}) => PendingRecordOfCall]_vars

C1_Witness ==
  /\ pc = "install_loop"
  /\ call.applied # <<>>
  /\ installed # call.installed0
  /\ PendingRecordOfCall

\* C2: an Install or Remove that called beginTransaction returns having
\* called endTransaction exactly once, on the id beginTransaction returned,
\* and that call comes after the last application the call attempts.
C2_EndExactlyOnce ==
  [][/\ (ev'.kind = "return" /\ ev'.op \in {"install", "remove"} /\ call.op # "none")
          => (call.ends = <<call.txID>> /\ ~HasTx(call.transactions0, call.txID))
     /\ (ev'.kind = "end") => (call.ends = <<>> /\ (call.i > Len(call.packages) \/ ~call.success))
     /\ (ev'.kind = "apply") => call.ends = <<>>]_vars

C2_Witness ==
  /\ pc = "install_ret"
  /\ Len(call.packages) > 1
  /\ call.i > Len(call.packages)
  /\ call.ends = <<call.txID>>

\* the ledger is the ledger at the start of the call plus one record of the
\* call with the given success value
OneNewRecord(txs, c, success) ==
  /\ Len(txs) = Len(c.transactions0) + 1
  /\ SubSeq(txs, 1, Len(c.transactions0)) = c.transactions0
  /\ txs[Len(txs)].type = c.op
  /\ Range(Unmarshal(txs[Len(txs)].packages)) = Range(c.packages)
  /\ Len(Unmarshal(txs[Len(txs)].packages)) = Len(c.packages)
  /\ txs[Len(txs)].success = success

\* some index row of n with the highest version string of n carries the
\* version, dependencies and conflicts of the installed row
IsSnapshotOfLatest(row, idx, n) ==
  \E r \in idx :
    /\ r.name = n
    /\ \A q \in idx : q.name = n => ~StrLess(r.version, q.version)
    /\ row.name = n
    /\ row.version = r.version
    /\ row.dependencies = r.dependencies
    /\ row.conflicts = r.conflicts

\* C3: when the k-th application of an Install fails, Install returns an
\* error, the packages before the k-th are installed, the k-th and the later
\* ones have the rows they had before the call, and the ledger has exactly
\* one new record: kind install, success = false, all resolved names.
C3_PartialFailure ==
  [][(pc = "install_ret" /\ ~call.success) =>
       /\ ev'.kind = "return" /\ ev'.op = "install" /\ ev'.result = "failed"
       /\ call.failedAt \in 1..Len(call.packages)
       /\ call.applied = SubSeq(call.packages, 1, call.failedAt - 1)
       /\ \A j \in 1..(call.failedAt - 1) :
            \E row \in installed' : IsSnapshotOfLatest(row, available, call.packages[j])
       /\ \A j \in call.failedAt..Len(call.packages) :
            RowsOf(installed', call.packages[j]) = RowsOf(call.installed0, call.packages[j])
       /\ OneNewRecord(transactions', call, FALSE)
       /\ Range(call.packages)
            = ResolveRun(ResolveStart(call.name), available, call.installed0).resolved]_vars

C3_Witness ==
  /\ pc = "install_ret"
  /\ ~call.success
  /\ Len(call.packages) = 3
  /\ call.failedAt = 2
  /\ IsInstalled(installed, call.packages[1])
  /\ ~IsInstalled(installed, call.packages[2])
  /\ ~IsInstalled(installed, call.packages[3])

\* C4: an Install refused by resolution or by the conflict check, and a
\* Remove refused because the name is not installed or has a dependent,
\* return with the installed set and the ledger unchanged.
C4_RefusalChangesNothing ==
  [][(/\ ev'.kind = "return"
      /\ ev'.op \in {"install", "remove"}
      /\ ev'.result \in {"notfound", "conflict", "notinstalled", "dependent"})
       => (installed' = installed /\ transactions' = transactions)]_vars

C4_Witness ==
  /\ ev.kind = "return"
  /\ ev.op = "remove"
  /\ ev.result = "dependent"
  /\ installed # {}
  /\ transactions # <<>>

InstallStarts(n) ==
  /\ pc \in {"idle", "rollback_loop"}
  /\ ev'.op = "install"
  /\ ev'.kind \in {"return", "begin"}
  /\ ev'.name = n

\* some index row of n with the highest version of n lists an installed
\* package among its conflicts
LatestConflictsWithInstalled(n) ==
  \E r \in available :
    /\ r.name = n
    /\ \A q \in available : q.name = n => ~StrLess(r.version, q.version)
    /\ \E b \in Range(Unmarshal(r.conflicts)) : \E row \in installed : row.name = b

\* every name the resolution of n reaches is installed or has an index row
Resolvable(n) == ~ResolveRun(ResolveStart(n), available, installed).failed

\* C6 as stated: when the latest index row of A lists an installed B among
\* its conflicts, Install(A) returns a conflict error, opens no transaction
\* and A is not installed afterwards.
C6_AsStated ==
  [][\A n \in Names :
       (InstallStarts(n) /\ LatestConflictsWithInstalled(n)) =>
         /\ ev'.kind = "return" /\ ev'.result = "conflict"
         /\ transactions' = transactions
         /\ ~IsInstalled(installed', n)]_vars

\* C6 amended: when the latest index row of A lists an installed B among its
\* conflicts, Install(A) fails, opens no transaction and writes no row; the
\* error is a conflict error when the resolution of A succeeds and a
\* not-found error when it does not; B need not declare a conflict with A.
C6_ConflictWithInstalledRefused ==
  [][\A n \in Names :
       (InstallStarts(n) /\ LatestConflictsWithInstalled(n)) =>
         /\ ev'.kind = "return"
         /\ ev'.result = (IF Resolvable(n) THEN "conflict" ELSE "notfound")
         /\ transactions' = transactions
         /\ installed' = installed]_vars

\* Install(a) has just been refused for its conflict with the installed c,
\* whose own row declares no conflict at all
C6_Witness ==
  /\ ev.kind = "return" /\ ev.op = "install" /\ ev.result = "conflict"
  /\ ev.name = NameA
  /\ LatestConflictsWithInstalled(NameA)
  /\ ~IsInstalled(installed, NameA)
  /\ \E row \in installed : row.name = NameC /\ Unmarshal(row.conflicts) = <<>>

\* C7 as stated: no installed package has a snapshotted conflict list that
\* names another installed package.
C7_AsStated ==
  \A p \in installed : \A q \in installed :
    p.name # q.name => q.name \notin Range(Unmarshal(p.conflicts))

\* the conflict names the index row of n declares, in declared order
DeclaredConflicts(n) ==
  IF \E r \in available : r.name = n
  THEN Unmarshal((CHOOSE r \in available :
                    r.name = n /\ \A q \in available :
                                    q.name = n => ~StrLess(r.version, q.version)).conflicts)
  ELSE <<>>

\* the k-th declared conflict of n is a candidate or an installed package
ViolationAt(n, k, packages) ==
  /\ k \in 1..Len(DeclaredConflicts(n))
  /\ \/ DeclaredConflicts(n)[k] \in Range(packages)
     \/ \E row \in installed : row.name = DeclaredConflicts(n)[k]

HasViolation(n, packages) == \E k \in 1..Len(DeclaredConflicts(n)) : ViolationAt(n, k, packages)

\* C8 as stated: the reported violation is the one of the first candidate,
\* in the order of the list handed in, that has a violation, and of that
\* candidate's first violating conflict name in declared order.
C8_AsStated ==
  (rs.mode = "checked" /\ rs.outcome.err) =>
    \E j \in 1..Len(rs.packages) :
      /\ HasViolation(rs.packages[j], rs.packages)
      /\ \A i \in 1..(j - 1) : ~HasViolation(rs.packages[i], rs.packages)
      /\ rs.outcome.pkg = rs.packages[j]
      /\ \E k \in 1..Len(DeclaredConflicts(rs.packages[j])) :
           /\ ViolationAt(rs.packages[j], k, rs.packages)
           /\ \A h \in 1..(k - 1) : ~ViolationAt(rs.packages[j], h, rs.packages)
           /\ rs.outcome.conflict = DeclaredConflicts(rs.packages[j])[k]

\* C9: ResolveDependencies of an installed name succeeds, returns that name
\* alone and reads no dependency list from the index, whatever the index
\* holds for the name and its dependencies.
C9_InstalledResolvesToItself ==
  (rs.mode \in {"resolving", "resolved"} /\ (\E row \in installed : row.name = rs.root)) =>
    /\ ~rs.st.failed
    /\ rs.st.queried = {}
    /\ rs.st.resolved \subseteq {rs.root}
    /\ rs.mode = "resolved" => rs.result = <<rs.root>>

\* the installed root has an index row whose dependency is in neither table
C9_Witness ==
  /\ rs.mode = "resolved"
  /\ rs.root = NameA
  /\ \E row \in installed : row.name = NameA
  /\ \E r \in available : r.name = NameA /\ Unmarshal(r.dependencies) = <<NameAB>>
  /\ ~\E r \in available : r.name = NameAB
  /\ ~\E row \in installed : row.name = NameAB
  /\ rs.result = <<NameA>>

\* the index is a(deps: ab), ab(deps: a) and nothing is installed
CycleAB ==
  /\ installed = {}
  /\ {r.name : r \in available} = {NameA, NameAB}
  /\ \A r \in available : r.name = NameA => Unmarshal(r.dependencies) = <<NameAB>>
  /\ \A r \in available : r.name = NameAB => Unmarshal(r.dependencies) = <<NameA>>

\* C10: every started ResolveDependencies returns, no name is visited more
\* than once on the way, and on the cycle a -> ab -> a with nothing
\* installed resolve(a) returns exactly {a, ab}.
C10_ResolveTerminates ==
  /\ [](rs.mode \in {"resolving", "resolved"} => \A n \in Names : rs.st.visits[n] <= 1)
  /\ [](rs.mode = "resolving" => <>(rs.mode = "resolved"))
  /\ []((rs.mode = "resolved" /\ rs.root = NameA /\ CycleAB) =>
          (~rs.st.failed /\ Range(rs.result) = {NameA, NameAB} /\ Len(rs.result) = 2))

C10_Witness ==
  /\ rs.mode = "resolved"
  /\ rs.root = NameA
  /\ CycleAB
  /\ Range(rs.result) = {NameA, NameAB}
  /\ rs.st.visits[NameA] = 1 /\ rs.st.visits[NameAB] = 1

\* the step is the first step of a Remove of n: it returns at once or it
\* opens the transaction
RemoveStarts(n) ==
  /\ pc \in {"idle", "rollback_loop"}
  /\ ev'.op = "remove"
  /\ ev'.kind \in {"return", "begin"}
  /\ ev'.name = n

\* the installed packages other than n whose snapshotted dependency list,
\* read as a list, has n as a member
OtherDependents(rows, n) ==
  {row.name : row \in {q \in rows : q.name # n /\ n \in Range(Unmarshal(q.dependencies))}}

\* C11 as stated: Remove of an installed name is refused for its dependents
\* exactly when some installed package other than the name itself has the
\* name in its snapshotted dependency list, and a refusal adds no record.
C11_AsStated ==
  [][\A n \in Names :
       (RemoveStarts(n) /\ IsInstalled(installed, n)) =>
         /\ (ev'.kind = "return" /\ ev'.result = "dependent")
              <=> (OtherDependents(installed, n) # {})
         /\ (ev'.result = "dependent") => transactions' = transactions]_vars

\* the step is a whole Upgrade of n
UpgradeOf(n) ==
  /\ pc = "idle"
  /\ ev'.op = "upgrade"
  /\ ev'.name = n

\* n is installed, the index has a row of n, and no index row of n has a
\* version string above the installed one
InstalledAtLeastLatest(n) ==
  /\ IsInstalled(installed, n)
  /\ \E q \in available : q.name = n
  /\ \A row \in installed : \A q \in available :
       (row.name = n /\ q.name = n) => ~StrLess(row.version, q.version)

\* C12: when the installed version string of a package is not below the
\* latest index version string, Upgrade returns without error and leaves the
\* installed rows and the ledger as they were.
C12_UpgradeNoOp ==
  [][\A n \in Names :
       (UpgradeOf(n) /\ InstalledAtLeastLatest(n)) =>
         /\ ev'.kind = "return" /\ ev'.result \in {"latest", "ok"}
         /\ installed' = installed
         /\ transactions' = transactions]_vars

\* Upgrade(c) has just found c 9 installed and c 9 the latest of an index
\* that also holds c 10
C12_Witness ==
  /\ ev.kind = "return" /\ ev.op = "upgrade" /\ ev.result = "latest"
  /\ ev.name = NameC
  /\ \E row \in installed : row.name = NameC /\ row.version = Ver9
  /\ \E q \in available : q.name = NameC /\ q.version = Ver10
  /\ transactions # <<>>

\* C13 as stated: every Upgrade that writes an installed row appends one
\* transaction record to the ledger.
C13_AsStated ==
  [][(ev'.op = "upgrade" /\ installed' # installed) =>
       /\ Len(transactions') = Len(transactions) + 1
       /\ SubSeq(transactions', 1, Len(transactions)) = transactions]_vars

\* C14: no step deletes a transaction record or changes the id, kind or
\* package list of an existing one, and every record a step adds has an id
\* above every id the ledger held before; this covers the steps of Rollback.
C14_LedgerAppendOnly ==
  [][/\ Len(transactions') >= Len(transactions)
     /\ \A k \in 1..Len(transactions) :
          /\ transactions'[k].id = transactions[k].id
          /\ transactions'[k].type = transactions[k].type
          /\ transactions'[k].packages = transactions[k].packages
     /\ \A k \in (Len(transactions) + 1)..Len(transactions') :
          \A j \in 1..Len(transactions) : transactions'[k].id > transactions[j].id]_vars

\* a Rollback is under way and a Remove it called has closed a failed record
\* of its own behind the record being rolled back
C14_Witness ==
  /\ rb.active
  /\ pc = "remove_ret"
  /\ Len(transactions) = 2
  /\ transactions[1].id = rb.txID
  /\ transactions[2].id > transactions[1].id
  /\ transactions[2].type = "remove"
  /\ ~transactions[2].success

\* the operation that undoes a record of the given kind
InverseOp(type) == IF type = "install" THEN "remove" ELSE "install"

\* the names a record lists, in listed order
ListedNames(txs, id) == Unmarshal(TxById(txs, id).packages)

\* C15: a Rollback of an existing record returns having called the inverse
\* operation on every listed name, once each, in listed order, whatever the
\* calls returned; a Rollback of a missing id returns not-found and changes
\* no table.
C15_RollbackInverse ==
  [][/\ (pc = "rollback_loop" /\ ev'.op = "rollback" /\ ev'.kind = "return") =>
          /\ HasTx(transactions, rb.txID)
          /\ Len(rb.attempted) = Len(ListedNames(transactions, rb.txID))
          /\ \A k \in 1..Len(rb.attempted) :
               rb.attempted[k] = <<InverseOp(TxById(transactions, rb.txID).type),
                                   ListedNames(transactions, rb.txID)[k]>>
     /\ (pc = "idle" /\ ev'.op = "rollback" /\ ev'.kind = "return") =>
          /\ ev'.result = "notfound"
          /\ \E id \in TxIds : ~HasTx(transactions, id)
          /\ installed' = installed
          /\ transactions' = transactions
          /\ available' = available
     /\ (pc = "idle" /\ ev'.op = "rollback" /\ ev'.kind = "begin") =>
          HasTx(transactions, rb'.txID)]_vars

\* the Rollback of an install record of several names has called Remove on
\* each of them although the first Remove was refused
C15_Witness ==
  /\ pc = "rollback_loop"
  /\ rb.type = "install"
  /\ Len(rb.packages) >= 2
  /\ Len(rb.attempted) = Len(rb.packages)
  /\ IsInstalled(installed, rb.packages[1])
  /\ ev.kind = "return" /\ ev.op = "remove"

\* C16 as stated: the Rollback of a successful install record, run right
\* after that Install with nothing in between, returns with the installed
\* rows exactly as they were before the Install.
C16_AsStated ==
  [][(pc = "rollback_loop" /\ ev'.op = "rollback" /\ ev'.kind = "return"
        /\ hist.undo.txID # 0)
       => installed' = hist.undo.installed0]_vars

\* C17: a sync changes no installed row and no transaction record, whatever
\* the fetched list holds.
C17_SyncLeavesInstalled ==
  [][(ev'.op = "update") =>
       /\ installed' = installed
       /\ transactions' = transactions]_vars

\* a sync has just put a row into the index that is the latest of an
\* installed name and differs from the installed row's version
C17_Witness ==
  /\ ev.kind = "return" /\ ev.op = "update"
  /\ transactions # <<>>
  /\ \E row \in installed :
       /\ HasLatest(available, row.name)
       /\ Latest(available, row.name).version # row.version

\* C18: no step of ResolveDependencies or CheckConflicts changes the
\* installed rows, the index or the ledger.
C18_ResolveCheckReadOnly ==
  [][(rs' # rs) =>
       /\ installed' = installed
       /\ available' = available
       /\ transactions' = transactions]_vars

\* ResolveDependencies has returned a list of several names, one of them
\* already installed, over a non-empty index
C18_Witness ==
  /\ rs.mode = "resolved"
  /\ ~rs.st.failed
  /\ Len(rs.result) >= 2
  /\ available # {}
  /\ \E n \in Range(rs.result) : IsInstalled(installed, n)
  /\ \E n \in Range(rs.result) : ~IsInstalled(installed, n)

\* every name in the snapshotted dependency list of every installed row is
\* itself installed
DependencyClosed(rows) ==
  \A row \in rows : \A d \in Range(Unmarshal(row.dependencies)) : IsInstalled(rows, d)

\* C19 as stated: between commands, after a sequence of calls from the empty
\* installed set that all returned without error, the installed set is
\* closed under its recorded dependencies.
C19_AsStated ==
  (hist.on /\ hist.allOk /\ pc \in {"idle", "done"}) => DependencyClosed(installed)

\* C20 as stated: an Install that returns leaves every row that was
\* installed when it started exactly as it was.
C20_AsStated ==
  [][(pc = "install_ret" /\ ev'.op = "install" /\ ev'.kind = "return")
       => call.installed0 \subseteq installed']_vars

\* the installed tables one Remove call that is not refused and whose DELETE
\* succeeds can leave
RemoveSucc(rows) ==
  {deletePackage(rows, n) : n \in {r.name : r \in {q \in rows : Dependents(rows, q.name) = {}}}}

\* the installed tables some finite sequence of Remove calls can leave
RECURSIVE RemoveReach(_)
RemoveReach(rows) == {rows} \cup UNION {RemoveReach(R) : R \in RemoveSucc(rows)}

\* C21 as stated: between commands, every installed package is absent from
\* the installed table that some finite sequence of Remove calls leaves.
C21_AsStated ==
  (pc = "idle") =>
    \A row \in installed : \E R \in RemoveReach(installed) : ~IsInstalled(R, row.name)

\* some row of n in the index has a version string not below v
IndexReaches(idx, n, v) == \E q \in idx : q.name = n /\ ~StrLess(q.version, v)

\* C22: after every step that changes the installed rows or the index (the
\* installed set starts empty), the version string of each installed row is
\* not above the latest index version string of its name; no step lowers the
\* latest index version of a name; and no step of Install or Upgrade
\* replaces an installed row by one of a lower version string.
C22_VersionsNeverDecrease ==
  [][/\ (installed' # installed \/ available' # available) =>
          \A row \in installed' : IndexReaches(available', row.name, row.version)
     /\ (available' # available) =>
          \A q \in available : IndexReaches(available', q.name, q.version)
     /\ (installed' # installed /\ ev'.op \in {"install", "upgrade"}) =>
          \A row \in installed : \A new \in installed' :
            (new.name = row.name) => ~StrLess(new.version, row.version)]_vars

\* Upgrade(c) has just replaced the installed c 10 by c 9, the higher
\* version string, with c 10 still in the index
C22_Witness ==
  /\ ev.kind = "return" /\ ev.op = "upgrade" /\ ev.result = "ok"
  /\ ev.name = NameC
  /\ \E row \in installed : row.name = NameC /\ row.version = Ver9
  /\ \E q \in available : q.name = NameC /\ q.version = Ver10

====
